---- MODULE Spec2Model ----
(***************************************************************************)
(* Sticker Sketchpad (src/src/main.ts): the command-based drawing model.   *)
(* Commands are objects with identity, so they live in a heap (cmds) and   *)
(* the display list, the redo stack and currentCmd hold references (ids).  *)
(* Every event handler is one action; the custom DOM events it dispatches  *)
(* are handled synchronously inside it (redraw + updateControls).          *)
(***************************************************************************)
EXTENDS Integers, Sequences, FiniteSets

\* ------------------------------------------------------------- bounds
\* Input events handled in one session.
MaxEvents == 6

\* Positions pointer events carry (offsetX, offsetY).
Offsets == {[x |-> 1, y |-> 2], [x |-> 3, y |-> 1]}

\* Text is a sequence of characters; these are the ones trim() strips: the
\* WhiteSpace and LineTerminator code points of ECMAScript. Characters outside
\* ASCII are written by their code point.
WhiteSpace ==
    {"\t", "\n", "U+000B", "\f", "\r", " ", "U+00A0", "U+1680",
     "U+2000", "U+2001", "U+2002", "U+2003", "U+2004", "U+2005", "U+2006",
     "U+2007", "U+2008", "U+2009", "U+200A", "U+2028", "U+2029", "U+202F",
     "U+205F", "U+3000", "U+FEFF"}

\* What globalThis.prompt may return: null (cancelled) or a text.
PromptResults ==
    {[isNull |-> TRUE, text |-> <<>>]} \cup
    {[isNull |-> FALSE, text |-> t] :
        t \in {<<>>, <<" ">>, <<"\n", "U+00A0">>, <<"a">>,
               <<"\t", "a", "U+3000">>, <<" ", "a", " ", "b">>}}

\* Key presses: modifier (ctrl or meta), key, shift.
KeyEvents ==
    {[mod |-> TRUE, key |-> "z", shift |-> FALSE],
     [mod |-> TRUE, key |-> "Z", shift |-> TRUE],
     [mod |-> FALSE, key |-> "z", shift |-> FALSE],
     [mod |-> TRUE, key |-> "y", shift |-> FALSE]}

\* ------------------------------------------------------------- state
VARIABLES
    cmds,             \* heap: command id -> the command's closure state
    displayList,      \* sequence of command ids, paint order
    redoStack,        \* sequence of command ids, top = last
    currentCmd,       \* id of the in-progress command, 0 = null
    currentToolMode,  \* "marker" | "sticker"
    currentLineWidth,
    currentSticker,
    currentStickerPx,
    stickerDefs,      \* the sticker registry
    previewCmd,       \* the preview object: kind, x, y, isVisible
    cursor,           \* active, x, y
    undoDisabled,     \* undoBtn.disabled
    redoDisabled,     \* redoBtn.disabled
    canvas,           \* what the last redraw painted
    lastOp,           \* the handler that ran last
    log,              \* the events the last handler dispatched, with their repaints
    download,         \* the image the last handler offered for download, if any
    hasCtx,           \* whether canvas.getContext("2d") gave a context (ctx # null)
    steps,            \* input events handled so far
    hist              \* history variable (SpecHist only): what the past events were

prog == <<cmds, displayList, redoStack, currentCmd, currentToolMode,
          currentLineWidth, currentSticker, currentStickerPx, stickerDefs,
          previewCmd, cursor, undoDisabled, redoDisabled, canvas, lastOp, log,
          download, hasCtx>>
vars == <<prog, steps, hist>>

\* ------------------------------------------------------------- constants of the code
currentStrokeStyle == "black"
ThinWidth == 2
ThickWidth == 8
CustomStickerPx == 32
\* The drawing canvas is CanvasSize x CanvasSize; the export surface is
\* ExportSize x ExportSize under a transform of ExportScale (src/unnamed/part_000).
CanvasSize == 256
ExportSize == 1024
ExportScale == 4
InitStickerDefs ==
    << [emoji |-> <<"U+2B50">>, px |-> 32],
       [emoji |-> <<"U+1F60A">>, px |-> 32],
       [emoji |-> <<"U+1F353">>, px |-> 32],
       [emoji |-> <<"U+1F525">>, px |-> 32] >>
firstSticker == InitStickerDefs[1]

\* ------------------------------------------------------------- text
RECURSIVE TrimStart(_)
TrimStart(s) ==
    IF s = <<>> THEN s
    ELSE IF Head(s) \in WhiteSpace THEN TrimStart(Tail(s)) ELSE s

RECURSIVE TrimEnd(_)
TrimEnd(s) ==
    IF s = <<>> THEN s
    ELSE IF s[Len(s)] \in WhiteSpace THEN TrimEnd(SubSeq(s, 1, Len(s) - 1)) ELSE s

\* Mutant of Trim: the label is taken as typed.
TrimNothing(s) == s

\* String.prototype.trim
Trim(s) == TrimEnd(TrimStart(s))

\* ------------------------------------------------------------- commands
\* createMarkerLine: one point, style captured at creation.
createMarkerLine(start, strokeStyle, lineWidth) ==
    [kind |-> "marker", points |-> <<start>>,
     strokeStyle |-> strokeStyle, lineWidth |-> lineWidth]

\* createSticker: an anchor copied from start, glyph and size captured.
createSticker(start, emoji, fontPx) ==
    [kind |-> "sticker", pos |-> [x |-> start.x, y |-> start.y],
     emoji |-> emoji, fontPx |-> fontPx]

\* Mutant of Drag: only strokes follow the pointer, a sticker stays where it was
\* created.
DragStrokesOnly(c, p) ==
    IF c.kind = "marker"
    THEN [c EXCEPT !.points = Append(@, [x |-> p.x, y |-> p.y])]
    ELSE c

\* drag(x, y): a stroke appends the point, a sticker overwrites its anchor.
Drag(c, p) ==
    IF c.kind = "marker"
    THEN [c EXCEPT !.points = Append(@, [x |-> p.x, y |-> p.y])]
    ELSE [c EXCEPT !.pos = [x |-> p.x, y |-> p.y]]

\* Mutant of MarkerDisplay: no special case for a single point, so a click strokes
\* a path that has no segment.
MarkerDisplayPathOnly(c) ==
    IF Len(c.points) = 0 THEN <<>>
    ELSE << [op |-> "strokePath", path |-> c.points,
             strokeStyle |-> c.strokeStyle, lineWidth |-> c.lineWidth,
             lineCap |-> "round", lineJoin |-> "round"] >>

\* display(ctx) of a stroke: what it draws on the surface. A single point is a
\* filled arc of radius lineWidth / 2, recorded by its diameter.
MarkerDisplay(c) ==
    IF Len(c.points) = 0 THEN <<>>
    ELSE IF Len(c.points) = 1
    THEN << [op |-> "fillCircle", x |-> c.points[1].x, y |-> c.points[1].y,
             diameter |-> c.lineWidth, fillStyle |-> c.strokeStyle] >>
    ELSE << [op |-> "strokePath", path |-> c.points,
             strokeStyle |-> c.strokeStyle, lineWidth |-> c.lineWidth,
             lineCap |-> "round", lineJoin |-> "round"] >>

\* display(ctx) of a sticker.
StickerDisplay(c) ==
    << [op |-> "fillText", text |-> c.emoji, x |-> c.pos.x, y |-> c.pos.y,
        fontPx |-> c.fontPx, textAlign |-> "center", textBaseline |-> "middle",
        alphaTenths |-> 10] >>

CommandDisplay(c) ==
    IF c.kind = "marker" THEN MarkerDisplay(c) ELSE StickerDisplay(c)

\* ------------------------------------------------------------- preview
createMarkerPreview == [kind |-> "marker", x |-> 0, y |-> 0, isVisible |-> FALSE]
createStickerPreview == [kind |-> "sticker", x |-> 0, y |-> 0, isVisible |-> FALSE]

\* Mutant of PreviewSet: only the x coordinate follows the pointer.
PreviewSetX(p, x, y) == [p EXCEPT !.x = x]

PreviewSet(p, x, y) == [p EXCEPT !.x = x, !.y = y]
PreviewShow(p) == [p EXCEPT !.isVisible = TRUE]
PreviewHide(p) == [p EXCEPT !.isVisible = FALSE]
PreviewVisible(p) == p.isVisible

\* What the preview draws when it is told to: the getters read the current tool.
\* The marker preview is a ring of radius lineWidth / 2 around a dot of radius 1,
\* both recorded by their diameters; the sticker preview is the glyph at alpha 0.7.
PreviewPaint(p, lw, st, px) ==
    IF p.kind = "marker"
    THEN << [op |-> "ring", x |-> p.x, y |-> p.y, diameter |-> lw],
            [op |-> "fillCircle", x |-> p.x, y |-> p.y, diameter |-> 2,
             fillStyle |-> currentStrokeStyle] >>
    ELSE << [op |-> "fillText", text |-> st, x |-> p.x, y |-> p.y,
             fontPx |-> px, textAlign |-> "center", textBaseline |-> "middle",
             alphaTenths |-> 7] >>

\* display(ctx) of a preview: nothing when it is not visible.
PreviewDisplay(p, lw, st, px) ==
    IF ~p.isVisible THEN <<>> ELSE PreviewPaint(p, lw, st, px)

\* Mutant of setPreviewForCurrentTool: the preview is always the marker's.
setPreviewAlwaysMarker(mode) == createMarkerPreview

\* setPreviewForCurrentTool
setPreviewForCurrentTool(mode) ==
    IF mode = "marker" THEN createMarkerPreview ELSE createStickerPreview

\* ------------------------------------------------------------- observers
\* Mutant of redraw: the preview is painted under the commands.
redrawPreviewFirst(dl, heap, cur, prev, lw, st, px) ==
    << [call |-> "clearRect"] >>
    \o (IF ~cur.active /\ PreviewVisible(prev)
        THEN << [call |-> "previewDisplay", out |-> PreviewDisplay(prev, lw, st, px)] >>
        ELSE <<>>)
    \o [i \in 1..Len(dl) |->
          [call |-> "display", cmd |-> dl[i], out |-> CommandDisplay(heap[dl[i]])]]

\* Mutant of redraw: the preview is painted whenever it says it is visible.
redrawIgnoresCursor(dl, heap, cur, prev, lw, st, px) ==
    << [call |-> "clearRect"] >>
    \o [i \in 1..Len(dl) |->
          [call |-> "display", cmd |-> dl[i], out |-> CommandDisplay(heap[dl[i]])]]
    \o (IF PreviewVisible(prev)
        THEN << [call |-> "previewDisplay", out |-> PreviewDisplay(prev, lw, st, px)] >>
        ELSE <<>>)

\* redraw: clear, every display-list command in order, then the preview.
redraw(dl, heap, cur, prev, lw, st, px) ==
    << [call |-> "clearRect"] >>
    \o [i \in 1..Len(dl) |->
          [call |-> "display", cmd |-> dl[i], out |-> CommandDisplay(heap[dl[i]])]]
    \o (IF ~cur.active /\ PreviewVisible(prev)
        THEN << [call |-> "previewDisplay", out |-> PreviewDisplay(prev, lw, st, px)] >>
        ELSE <<>>)

\* Mutant of onAnyChange: the control refresh forgets the redo button.
onAnyChangeUndoOnly(ev, dl, rs, heap, cur, prev, lw, st, px) ==
    [event |-> ev, active |-> cur.active, visible |-> prev.isVisible, dl |-> dl,
     calls |-> redraw(dl, heap, cur, prev, lw, st, px),
     undoDisabled |-> (Len(dl) = 0), redoDisabled |-> redoDisabled]

\* onAnyChange as run by one dispatchEvent: the repaint and the control refresh,
\* with the state the dispatch happened in. When ctx is null, redraw throws a
\* TypeError at ctx.clearRect: nothing is painted, updateControls is not reached,
\* and dispatchEvent reports the exception without passing it to its caller.
onAnyChange(ev, dl, rs, heap, cur, prev, lw, st, px) ==
    IF hasCtx
    THEN [event |-> ev, active |-> cur.active, visible |-> prev.isVisible, dl |-> dl,
          calls |-> redraw(dl, heap, cur, prev, lw, st, px),
          undoDisabled |-> (Len(dl) = 0), redoDisabled |-> (Len(rs) = 0)]
    ELSE [event |-> ev, active |-> cur.active, visible |-> prev.isVisible, dl |-> dl,
          calls |-> <<>>,
          undoDisabled |-> undoDisabled, redoDisabled |-> redoDisabled]

\* No download: what every handler but a successful export leaves.
NoDownload == [file |-> "", width |-> 0, height |-> 0, painted |-> <<>>]

\* The tail of every handler: what its dispatches left on the canvas and the buttons.
Observed(op, notes) ==
    /\ lastOp' = op
    /\ download' = NoDownload
    /\ hasCtx' = hasCtx
    /\ log' = notes
    /\ canvas' = IF notes = <<>> THEN canvas ELSE notes[Len(notes)].calls
    /\ undoDisabled' = IF notes = <<>> THEN undoDisabled
                       ELSE notes[Len(notes)].undoDisabled
    /\ redoDisabled' = IF notes = <<>> THEN redoDisabled
                       ELSE notes[Len(notes)].redoDisabled

\* ------------------------------------------------------------- heap
Range(s) == {s[i] : i \in 1..Len(s)}

\* Commands no list and no variable refers to are unreachable: drop them.
Collect(heap, dl, rs, cc) ==
    [c \in (DOMAIN heap) \cap (Range(dl) \cup Range(rs) \cup {cc}) |-> heap[c]]

\* A fresh reference: the least id the heap does not hold.
NewId ==
    CHOOSE c \in 1..(Cardinality(DOMAIN cmds) + 1) :
        /\ c \notin DOMAIN cmds
        /\ \A d \in 1..(c - 1) : d \in DOMAIN cmds


\* The program state without the record of the last handler.
core == <<cmds, displayList, redoStack, currentCmd, currentToolMode,
          currentLineWidth, currentSticker, currentStickerPx, stickerDefs,
          previewCmd, cursor, undoDisabled, redoDisabled, canvas, hasCtx>>

\* One handler's net effect on the program state, with what it dispatched.
Step(op, heap, dl, rs, cc, mode, lw, st, px, defs, prev, cur, notes) ==
    /\ cmds' = Collect(heap, dl, rs, cc)
    /\ displayList' = dl
    /\ redoStack' = rs
    /\ currentCmd' = cc
    /\ currentToolMode' = mode
    /\ currentLineWidth' = lw
    /\ currentSticker' = st
    /\ currentStickerPx' = px
    /\ stickerDefs' = defs
    /\ previewCmd' = prev
    /\ cursor' = cur
    /\ Observed(op, notes)

\* A dispatchEvent in the current tool state.
Dispatch(ev, dl, rs, heap, cur, prev) ==
    onAnyChange(ev, dl, rs, heap, cur, prev,
                currentLineWidth, currentSticker, currentStickerPx)

\* ------------------------------------------------------------- history variable
\* phase: where the session is in a run "commits from an empty display list, then
\* undo calls, then redo calls"; commits: the commands of that run in commit order;
\* k: undo (redo) calls made in the phase; snap: the heap when the undos began;
\* pre: the two arrays before the last event.
NoHistory ==
    [phase |-> "off", commits |-> <<>>, k |-> 0, snap |-> <<>>,
     pre |-> [dl |-> <<>>, rs |-> <<>>]]

\* ------------------------------------------------------------- initUI
Init ==
    /\ hasCtx = TRUE
    /\ cmds = <<>>
    /\ displayList = <<>>
    /\ redoStack = <<>>
    /\ currentCmd = 0
    /\ currentToolMode = "marker"
    /\ currentLineWidth = ThinWidth
    /\ currentSticker = firstSticker.emoji
    /\ currentStickerPx = firstSticker.px
    /\ stickerDefs = InitStickerDefs
    /\ previewCmd = setPreviewForCurrentTool("marker")
    /\ cursor = [active |-> FALSE, x |-> 0, y |-> 0]
    /\ undoDisabled = TRUE
    /\ redoDisabled = TRUE
    /\ canvas = << [call |-> "clearRect"] >>
    /\ lastOp = "initUI"
    /\ log = LET n == onAnyChange("tool-moved", <<>>, <<>>, <<>>,
                                  [active |-> FALSE, x |-> 0, y |-> 0],
                                  setPreviewForCurrentTool("marker"),
                                  ThinWidth, firstSticker.emoji, firstSticker.px)
             IN  <<n, n>>
    /\ download = NoDownload
    /\ steps = 0
    /\ hist = NoHistory

\* initUI on a host whose canvas gives no 2d context: the cast lets null
\* through, every listener is registered, and the two repaints of the initial
\* refresh throw inside their listener, so nothing is painted and the buttons keep
\* the enabled state they were created with.
InitNoContext ==
    /\ hasCtx = FALSE
    /\ cmds = <<>>
    /\ displayList = <<>>
    /\ redoStack = <<>>
    /\ currentCmd = 0
    /\ currentToolMode = "marker"
    /\ currentLineWidth = ThinWidth
    /\ currentSticker = firstSticker.emoji
    /\ currentStickerPx = firstSticker.px
    /\ stickerDefs = InitStickerDefs
    /\ previewCmd = setPreviewForCurrentTool("marker")
    /\ cursor = [active |-> FALSE, x |-> 0, y |-> 0]
    /\ undoDisabled = FALSE
    /\ redoDisabled = FALSE
    /\ canvas = <<>>
    /\ lastOp = "initUI"
    /\ log = LET n == onAnyChange("tool-moved", <<>>, <<>>, <<>>,
                                  [active |-> FALSE, x |-> 0, y |-> 0],
                                  setPreviewForCurrentTool("marker"),
                                  ThinWidth, firstSticker.emoji, firstSticker.px)
             IN  <<n, n>>
    /\ download = NoDownload
    /\ steps = 0
    /\ hist = NoHistory

\* ------------------------------------------------------------- pointer handlers
\* Mutant of NewCommand: the stroke is created without its options, so it takes
\* the factory's default width.
NewCommandDefaultWidth(mode, p, lw, st, px) ==
    IF mode = "marker"
    THEN createMarkerLine([x |-> p.x, y |-> p.y], currentStrokeStyle, 2)
    ELSE createSticker([x |-> p.x, y |-> p.y], st, px)

\* The command the active tool creates at a position.
NewCommand(mode, p, lw, st, px) ==
    IF mode = "marker"
    THEN createMarkerLine([x |-> p.x, y |-> p.y], currentStrokeStyle, lw)
    ELSE createSticker([x |-> p.x, y |-> p.y], st, px)

\* Mutant of KillRedo: a commit that leaves the redo stack alone.
KillRedoNever(rs) == rs

\* "new edit kills redo"
KillRedo(rs) == IF Len(rs) # 0 THEN <<>> ELSE rs

MouseDown(p) ==
    LET cur  == [active |-> TRUE, x |-> p.x, y |-> p.y]
        prev == PreviewHide(previewCmd)
        rs   == KillRedo(redoStack)
        id   == NewId
        heap == [c \in DOMAIN cmds \cup {id} |->
                   IF c = id
                   THEN NewCommand(currentToolMode, cur, currentLineWidth,
                                   currentSticker, currentStickerPx)
                   ELSE cmds[c]]
        dl   == Append(displayList, id)
    IN  Step("mousedown", heap, dl, rs, id, currentToolMode, currentLineWidth,
             currentSticker, currentStickerPx, stickerDefs, prev, cur,
             << Dispatch("drawing-changed", dl, rs, heap, cur, prev) >>)

\* Whether a pointer-move drags the live command.
Dragging(cur, cc) == cur.active /\ cc # 0

MouseMove(p) ==
    LET cur == [cursor EXCEPT !.x = p.x, !.y = p.y]
    IN  IF Dragging(cur, currentCmd)
        THEN LET heap == [cmds EXCEPT ![currentCmd] = Drag(@, cur)]
             IN  Step("mousemove", heap, displayList, redoStack, currentCmd,
                      currentToolMode, currentLineWidth, currentSticker,
                      currentStickerPx, stickerDefs, previewCmd, cur,
                      << Dispatch("drawing-changed", displayList, redoStack,
                                  heap, cur, previewCmd) >>)
        ELSE LET prev == PreviewShow(PreviewSet(previewCmd, cur.x, cur.y))
             IN  Step("mousemove", cmds, displayList, redoStack, currentCmd,
                      currentToolMode, currentLineWidth, currentSticker,
                      currentStickerPx, stickerDefs, prev, cur,
                      << Dispatch("tool-moved", displayList, redoStack, cmds,
                                  cur, prev) >>)

\* Mutant of endStroke: the live command reference is not cleared.
endStrokeKeepsCmd(op, prev0, before) ==
    LET cur  == [cursor EXCEPT !.active = FALSE]
        prev == PreviewShow(PreviewSet(prev0, cur.x, cur.y))
    IN  Step(op, cmds, displayList, redoStack, currentCmd, currentToolMode,
             currentLineWidth, currentSticker, currentStickerPx, stickerDefs,
             prev, cur,
             before \o << Dispatch("tool-moved", displayList, redoStack, cmds,
                                   cur, prev) >>)

\* endStroke, run after `before` was already dispatched, on preview `prev0`.
endStroke(op, prev0, before) ==
    LET cur  == [cursor EXCEPT !.active = FALSE]
        prev == PreviewShow(PreviewSet(prev0, cur.x, cur.y))
    IN  Step(op, cmds, displayList, redoStack, 0, currentToolMode,
             currentLineWidth, currentSticker, currentStickerPx, stickerDefs,
             prev, cur,
             before \o << Dispatch("tool-moved", displayList, redoStack, cmds,
                                   cur, prev) >>)

MouseUp == endStroke("mouseup", previewCmd, <<>>)

\* Mutant of MouseLeave: the leave hides the preview and waits for a pointer-up to
\* end the stroke.
MouseLeaveHidesOnly ==
    LET prev == PreviewHide(previewCmd)
    IN  Step("mouseleave", cmds, displayList, redoStack, currentCmd,
             currentToolMode, currentLineWidth, currentSticker, currentStickerPx,
             stickerDefs, prev, cursor,
             << Dispatch("tool-moved", displayList, redoStack, cmds, cursor, prev) >>)

MouseLeave ==
    LET prev == PreviewHide(previewCmd)
    IN  endStroke("mouseleave", prev,
                  << Dispatch("tool-moved", displayList, redoStack, cmds,
                              cursor, prev) >>)

\* ------------------------------------------------------------- undo / redo / clear
\* Mutant of UndoLists: the undone command is dropped.
UndoListsDrop(dl, rs) ==
    [dl |-> SubSeq(dl, 1, Len(dl) - 1), rs |-> rs]

\* Mutant of UndoLists: the undone command goes to the bottom of the redo stack.
UndoListsUnshift(dl, rs) ==
    [dl |-> SubSeq(dl, 1, Len(dl) - 1), rs |-> <<dl[Len(dl)]>> \o rs]

\* undo's effect on the two arrays: pop the display list, push on the redo stack.
UndoLists(dl, rs) ==
    [dl |-> SubSeq(dl, 1, Len(dl) - 1), rs |-> Append(rs, dl[Len(dl)])]

\* Mutant of RedoLists: redo reads the top of the redo stack without popping it.
RedoListsPeek(dl, rs) ==
    [dl |-> Append(dl, rs[Len(rs)]), rs |-> rs]

\* Mutant of RedoLists: redo takes the bottom of the redo stack, not its top.
RedoListsShift(dl, rs) ==
    [dl |-> Append(dl, rs[1]), rs |-> SubSeq(rs, 2, Len(rs))]

\* redo's effect on the two arrays: pop the redo stack, push on the display list.
RedoLists(dl, rs) ==
    [dl |-> Append(dl, rs[Len(rs)]), rs |-> SubSeq(rs, 1, Len(rs) - 1)]

\* Nothing happens: an early return.
Return(op) ==
    Step(op, cmds, displayList, redoStack, currentCmd, currentToolMode,
         currentLineWidth, currentSticker, currentStickerPx, stickerDefs,
         previewCmd, cursor, <<>>)

\* Mutant of ListsChanged: the arrays change and no event is dispatched.
ListsChangedSilently(op, l) ==
    Step(op, cmds, l.dl, l.rs, currentCmd, currentToolMode, currentLineWidth,
         currentSticker, currentStickerPx, stickerDefs, previewCmd, cursor, <<>>)

\* A handler that only changes the two arrays and reports it.
ListsChanged(op, l) ==
    Step(op, cmds, l.dl, l.rs, currentCmd, currentToolMode, currentLineWidth,
         currentSticker, currentStickerPx, stickerDefs, previewCmd, cursor,
         << Dispatch("drawing-changed", l.dl, l.rs, cmds, cursor, previewCmd) >>)

\* Mutant of undo: no early return, the change is reported although nothing changed.
undoNoReturn ==
    IF Len(displayList) = 0
    THEN ListsChanged("undo", [dl |-> displayList, rs |-> redoStack])
    ELSE ListsChanged("undo", UndoLists(displayList, redoStack))

undo ==
    IF Len(displayList) = 0 THEN Return("undo")
    ELSE ListsChanged("undo", UndoLists(displayList, redoStack))

redo ==
    IF Len(redoStack) = 0 THEN Return("redo")
    ELSE ListsChanged("redo", RedoLists(displayList, redoStack))

\* A disabled button dispatches no click.
UndoClick == ~undoDisabled /\ undo
RedoClick == ~redoDisabled /\ redo

\* Mutant of ClearLists: clear forgets the redo stack.
ClearListsKeepRedo == [dl |-> <<>>, rs |-> redoStack]

ClearLists == [dl |-> <<>>, rs |-> <<>>]

ClearClick == ListsChanged("clear", ClearLists)

\* String.prototype.toLowerCase on the keys of KeyEvents.
ToLowerCase(key) == IF key = "Z" THEN "z" ELSE key

KeyDown(e) ==
    IF ~e.mod THEN Return("keydown")
    ELSE IF ToLowerCase(e.key) = "z" /\ ~e.shift THEN undo
    ELSE IF ToLowerCase(e.key) = "z" /\ e.shift THEN redo
    ELSE Return("keydown")

\* ------------------------------------------------------------- tool selection
\* Mutant of ToolChanged: the new line width is also applied to the strokes that
\* exist already.
ToolChangedRestyles(op, mode, lw, st, px, defs) ==
    LET prev == setPreviewForCurrentTool(mode)
        heap == [c \in DOMAIN cmds |->
                   IF cmds[c].kind = "marker"
                   THEN [cmds[c] EXCEPT !.lineWidth = lw] ELSE cmds[c]]
    IN  Step(op, heap, displayList, redoStack, currentCmd, mode, lw, st, px, defs,
             prev, cursor,
             << onAnyChange("tool-moved", displayList, redoStack, heap, cursor,
                            prev, lw, st, px) >>)

\* A handler that only changes the tool state, rebuilds the preview and reports it.
ToolChanged(op, mode, lw, st, px, defs) ==
    LET prev == setPreviewForCurrentTool(mode)
    IN  Step(op, cmds, displayList, redoStack, currentCmd, mode, lw, st, px, defs,
             prev, cursor,
             << onAnyChange("tool-moved", displayList, redoStack, cmds, cursor,
                            prev, lw, st, px) >>)

setMarkerTool(lineWidth) ==
    ToolChanged("setMarkerTool", "marker", lineWidth, currentSticker,
                currentStickerPx, stickerDefs)

ThinClick == setMarkerTool(ThinWidth)
ThickClick == setMarkerTool(ThickWidth)

\* The click handler of the button built for registry entry i of defs.
StickerButton(op, defs, i) ==
    ToolChanged(op, "sticker", currentLineWidth, defs[i].emoji, defs[i].px, defs)

StickerClick(i) == StickerButton("stickerClick", stickerDefs, i)

\* The sticker buttons the sessions click: the first and the last of the row.
StickerButtons == {1, Len(stickerDefs)}

\* Mutant of PushSticker: the new definition goes to the front of the registry.
PushStickerFront(defs, trimmed) ==
    << [emoji |-> trimmed, px |-> CustomStickerPx] >> \o defs

\* The registry after a label is accepted.
PushSticker(defs, trimmed) == Append(defs, [emoji |-> trimmed, px |-> CustomStickerPx])

AddStickerClick(r) ==
    IF r.isNull THEN Return("addSticker")
    ELSE LET trimmed == Trim(r.text)
         IN  IF trimmed = <<>> THEN Return("addSticker")
             ELSE LET defs == PushSticker(stickerDefs, trimmed)
                  IN  StickerButton("addSticker", defs, Len(defs))

\* ------------------------------------------------------------- export
\* One drawing operation under ctx.scale(k, k): the surface sees every coordinate,
\* width and font size multiplied by k.
Scaled(o, k) ==
    IF o.op = "fillCircle"
    THEN [o EXCEPT !.x = k * @, !.y = k * @, !.diameter = k * @]
    ELSE IF o.op = "strokePath"
    THEN [o EXCEPT !.path = [i \in 1..Len(o.path) |->
                               [x |-> k * o.path[i].x, y |-> k * o.path[i].y]],
                   !.lineWidth = k * @]
    ELSE [o EXCEPT !.x = k * @, !.y = k * @, !.fontPx = k * @]

\* What one command paints on a surface whose transform is scale(k, k).
DisplayScaled(c, k) ==
    LET out == CommandDisplay(c)
    IN  [j \in 1..Len(out) |-> Scaled(out[j], k)]

\* Mutant of exportHighResPNG: the transform is forgotten.
exportHighResPNGUnscaled(dl, heap, bctx) ==
    IF ~bctx THEN NoDownload
    ELSE [file |-> "sketchpad.png", width |-> ExportSize, height |-> ExportSize,
          painted |-> [i \in 1..Len(dl) |->
                         [cmd |-> dl[i], out |-> DisplayScaled(heap[dl[i]], 1)]]]

\* exportHighResPNG(displayList): bctx tells whether the offscreen canvas gave a
\* 2d context; without one the function returns and nothing is downloaded.
exportHighResPNG(dl, heap, bctx) ==
    IF ~bctx THEN NoDownload
    ELSE [file |-> "sketchpad.png", width |-> ExportSize, height |-> ExportSize,
          painted |-> [i \in 1..Len(dl) |->
                         [cmd |-> dl[i],
                          out |-> DisplayScaled(heap[dl[i]], ExportScale)]]]

\* exportBtn.onclick
ExportClick(bctx) ==
    /\ download' = exportHighResPNG(displayList, cmds, bctx)
    /\ lastOp' = "export"
    /\ log' = <<>>
    /\ UNCHANGED core

\* ------------------------------------------------------------- the 2d context
\* The style state of a CanvasRenderingContext2D and its stack of saved states.
\* A fresh context has the default style; font is size and family, globalAlpha
\* is in tenths.
DefaultStyle ==
    [strokeStyle |-> "#000000", fillStyle |-> "#000000", lineWidth |-> 1,
     lineCap |-> "butt", lineJoin |-> "miter",
     font |-> [px |-> 10, family |-> "sans-serif"],
     textAlign |-> "start", textBaseline |-> "alphabetic", globalAlpha |-> 10]

\* A style some earlier painting could have left behind.
UsedStyle ==
    [strokeStyle |-> "red", fillStyle |-> "blue", lineWidth |-> 5,
     lineCap |-> "square", lineJoin |-> "bevel",
     font |-> [px |-> 20, family |-> "serif"],
     textAlign |-> "right", textBaseline |-> "top", globalAlpha |-> 5]

\* The contexts a display call is tried on: style, and saved states below it.
Contexts ==
    {[style |-> st, stack |-> sk] :
        st \in {DefaultStyle, UsedStyle}, sk \in {<<>>, <<DefaultStyle>>}}

\* The calls a display method makes on ctx.
Save == [i |-> "save"]
Restore == [i |-> "restore"]
Assign(f, v) == [i |-> "set", f |-> f, v |-> v]
Paint(m) == [i |-> m]

\* One call on the context: save pushes the style, restore pops it (and does
\* nothing on an empty stack), an assignment sets one property, painting and path
\* calls leave the style alone.
CtxCall(ctx, c) ==
    IF c.i = "save" THEN [ctx EXCEPT !.stack = Append(@, ctx.style)]
    ELSE IF c.i = "restore"
    THEN IF ctx.stack = <<>> THEN ctx
         ELSE [style |-> ctx.stack[Len(ctx.stack)],
               stack |-> SubSeq(ctx.stack, 1, Len(ctx.stack) - 1)]
    ELSE IF c.i = "set" THEN [ctx EXCEPT !.style[c.f] = c.v]
    ELSE ctx

RECURSIVE CtxCalls(_, _)
CtxCalls(ctx, calls) ==
    IF calls = <<>> THEN ctx ELSE CtxCalls(CtxCall(ctx, Head(calls)), Tail(calls))

StickerFont(px) == [px |-> px, family |-> "system-ui, Apple Color Emoji, Segoe UI Emoji"]

\* Mutant of MarkerDisplayCalls: the single-point branch returns without restore.
MarkerDisplayCallsNoRestore(c) ==
    IF Len(c.points) = 0 THEN <<>>
    ELSE << Save, Assign("strokeStyle", c.strokeStyle), Assign("lineWidth", c.lineWidth),
            Assign("lineCap", "round"), Assign("lineJoin", "round") >>
         \o (IF Len(c.points) = 1
             THEN << Paint("beginPath"), Paint("arc"),
                     Assign("fillStyle", c.strokeStyle), Paint("fill") >>
             ELSE << Paint("beginPath"), Paint("moveTo") >>
                  \o [i \in 1..(Len(c.points) - 1) |-> Paint("lineTo")]
                  \o << Paint("stroke"), Restore >>)

\* The context calls of a stroke's display(ctx), in program order.
MarkerDisplayCalls(c) ==
    IF Len(c.points) = 0 THEN <<>>
    ELSE << Save, Assign("strokeStyle", c.strokeStyle), Assign("lineWidth", c.lineWidth),
            Assign("lineCap", "round"), Assign("lineJoin", "round") >>
         \o (IF Len(c.points) = 1
             THEN << Paint("beginPath"), Paint("arc"),
                     Assign("fillStyle", c.strokeStyle), Paint("fill"), Restore >>
             ELSE << Paint("beginPath"), Paint("moveTo") >>
                  \o [i \in 1..(Len(c.points) - 1) |-> Paint("lineTo")]
                  \o << Paint("stroke"), Restore >>)

\* The context calls of a sticker's display(ctx).
StickerDisplayCalls(c) ==
    << Save, Assign("font", StickerFont(c.fontPx)), Assign("textAlign", "center"),
       Assign("textBaseline", "middle"), Paint("fillText"), Restore >>

CommandDisplayCalls(c) ==
    IF c.kind = "marker" THEN MarkerDisplayCalls(c) ELSE StickerDisplayCalls(c)

\* The context calls of a preview's display(ctx); none when it is not visible.
PreviewDisplayCalls(p, lw, st, px) ==
    IF ~p.isVisible THEN <<>>
    ELSE IF p.kind = "marker"
    THEN << Save, Paint("beginPath"), Assign("lineWidth", 1),
            Assign("strokeStyle", "rgba(0,0,0,0.6)"),
            Assign("fillStyle", "rgba(0,0,0,0.08)"),
            Paint("arc"), Paint("fill"), Paint("stroke"), Paint("beginPath"),
            Paint("arc"), Assign("fillStyle", currentStrokeStyle), Paint("fill"),
            Restore >>
    ELSE << Save, Assign("font", StickerFont(px)), Assign("textAlign", "center"),
            Assign("textBaseline", "middle"), Assign("globalAlpha", 7),
            Paint("fillText"), Assign("globalAlpha", 10), Restore >>

\* The display calls of a list of renderers, one after the other on one context:
\* for each, the context before and after it.
RECURSIVE Rendered(_, _)
Rendered(ctx, rs) ==
    IF rs = <<>> THEN <<>>
    ELSE LET after == CtxCalls(ctx, Head(rs).calls)
         IN  << [event |-> "display", what |-> Head(rs).what,
                 before |-> ctx, after |-> after] >>
             \o Rendered(after, Tail(rs))

\* ------------------------------------------------------------- specification
\* The history variable after an event (read with the event's primed state).
Tracked ==
    LET pre == [dl |-> displayList, rs |-> redoStack]
        off == [NoHistory EXCEPT !.pre = pre]
        n   == Len(hist.commits)
    IN  hist' =
          CASE lastOp' = "mousedown" ->
                 IF displayList = <<>>
                 THEN [off EXCEPT !.phase = "commit", !.commits = <<currentCmd'>>]
                 ELSE IF hist.phase = "commit"
                 THEN [hist EXCEPT !.commits = Append(@, currentCmd'), !.pre = pre]
                 ELSE off
            [] lastOp' = "undo" ->
                 IF hist.phase = "commit"
                 THEN [hist EXCEPT !.phase = "undo", !.k = 1, !.snap = cmds, !.pre = pre]
                 ELSE IF hist.phase = "undo" /\ hist.k < n
                 THEN [hist EXCEPT !.k = @ + 1, !.pre = pre]
                 ELSE off
            [] lastOp' = "redo" ->
                 IF hist.phase = "undo" /\ hist.k = n
                 THEN [hist EXCEPT !.phase = "redo", !.k = 1, !.pre = pre]
                 ELSE IF hist.phase = "redo" /\ hist.k < n
                 THEN [hist EXCEPT !.k = @ + 1, !.pre = pre]
                 ELSE off
            [] lastOp' = "clear" -> off
            [] lastOp' = "mousemove" ->
                 IF Dragging(cursor', currentCmd) /\ hist.phase \in {"undo", "redo"}
                 THEN off
                 ELSE [hist EXCEPT !.pre = pre]
            [] OTHER -> [hist EXCEPT !.pre = pre]

\* One input event of a bounded session.
Budget == steps < MaxEvents /\ steps' = steps + 1

\* Spec leaves the history variable alone.
Untracked == UNCHANGED hist

Next ==
    \/ \E p \in Offsets : Budget /\ MouseDown(p) /\ Untracked
    \/ \E p \in Offsets : Budget /\ MouseMove(p) /\ Untracked
    \/ Budget /\ MouseUp /\ Untracked
    \/ Budget /\ MouseLeave /\ Untracked
    \/ Budget /\ UndoClick /\ Untracked
    \/ Budget /\ RedoClick /\ Untracked
    \/ Budget /\ ClearClick /\ Untracked
    \/ \E e \in KeyEvents : Budget /\ KeyDown(e) /\ Untracked
    \/ Budget /\ ThinClick /\ Untracked
    \/ Budget /\ ThickClick /\ Untracked
    \/ \E i \in StickerButtons : Budget /\ StickerClick(i) /\ Untracked
    \/ \E r \in PromptResults : Budget /\ AddStickerClick(r) /\ Untracked

Spec == Init /\ [][Next]_vars

\* The same events, with the history variable kept.
NextHist ==
    \/ \E p \in Offsets : Budget /\ MouseDown(p) /\ Tracked
    \/ \E p \in Offsets : Budget /\ MouseMove(p) /\ Tracked
    \/ Budget /\ MouseUp /\ Tracked
    \/ Budget /\ MouseLeave /\ Tracked
    \/ Budget /\ UndoClick /\ Tracked
    \/ Budget /\ RedoClick /\ Tracked
    \/ Budget /\ ClearClick /\ Tracked
    \/ \E e \in KeyEvents : Budget /\ KeyDown(e) /\ Tracked
    \/ Budget /\ ThinClick /\ Tracked
    \/ Budget /\ ThickClick /\ Tracked
    \/ \E i \in StickerButtons : Budget /\ StickerClick(i) /\ Tracked
    \/ \E r \in PromptResults : Budget /\ AddStickerClick(r) /\ Tracked

SpecHist == Init /\ [][NextHist]_vars

\* The same program on a host that gives no 2d context.
SpecNoContext == InitNoContext /\ [][Next]_vars

\* The sketchpad with the export button (src/unnamed/part_000).
NextExport ==
    \/ \E p \in Offsets : Budget /\ MouseDown(p) /\ Untracked
    \/ \E p \in Offsets : Budget /\ MouseMove(p) /\ Untracked
    \/ Budget /\ MouseUp /\ Untracked
    \/ Budget /\ MouseLeave /\ Untracked
    \/ Budget /\ UndoClick /\ Untracked
    \/ Budget /\ RedoClick /\ Untracked
    \/ Budget /\ ClearClick /\ Untracked
    \/ \E e \in KeyEvents : Budget /\ KeyDown(e) /\ Untracked
    \/ Budget /\ ThinClick /\ Untracked
    \/ Budget /\ ThickClick /\ Untracked
    \/ \E i \in StickerButtons : Budget /\ StickerClick(i) /\ Untracked
    \/ \E r \in PromptResults : Budget /\ AddStickerClick(r) /\ Untracked
    \/ \E bctx \in BOOLEAN : Budget /\ ExportClick(bctx) /\ Untracked

SpecExport == Init /\ [][NextExport]_vars

\* redraw as a function of its inputs: applied to the current display list under
\* any value of cursor.active and of the preview's visibility flag. The probe
\* leaves the program alone and ends the session.
RedrawProbe(active, visible) ==
    /\ log' = << Dispatch("probe", displayList, redoStack, cmds,
                          [cursor EXCEPT !.active = active],
                          [previewCmd EXCEPT !.isVisible = visible]) >>
    /\ lastOp' = "redraw"
    /\ UNCHANGED <<core, download>>

NextRedraw ==
    \/ \E p \in Offsets : Budget /\ MouseDown(p) /\ Untracked
    \/ \E p \in Offsets : Budget /\ MouseMove(p) /\ Untracked
    \/ Budget /\ MouseUp /\ Untracked
    \/ Budget /\ MouseLeave /\ Untracked
    \/ Budget /\ UndoClick /\ Untracked
    \/ Budget /\ RedoClick /\ Untracked
    \/ Budget /\ ClearClick /\ Untracked
    \/ \E e \in KeyEvents : Budget /\ KeyDown(e) /\ Untracked
    \/ Budget /\ ThinClick /\ Untracked
    \/ Budget /\ ThickClick /\ Untracked
    \/ \E i \in StickerButtons : Budget /\ StickerClick(i) /\ Untracked
    \/ \E r \in PromptResults : Budget /\ AddStickerClick(r) /\ Untracked
    \/ \E a, v \in BOOLEAN :
          steps < MaxEvents /\ steps' = MaxEvents /\ RedrawProbe(a, v) /\ Untracked

SpecRedraw == Init /\ [][NextRedraw]_vars

\* The display methods as functions of the context: every display-list command
\* in order and then the preview, shown or not, called on a context in any of the
\* states of Contexts. The probe leaves the program alone and ends the session.
DisplayProbe(ctx) ==
    /\ log' = Rendered(ctx,
                 [i \in 1..Len(displayList) |->
                    [what  |-> cmds[displayList[i]].kind,
                     calls |-> CommandDisplayCalls(cmds[displayList[i]])]]
                 \o << [what  |-> "preview",
                        calls |-> PreviewDisplayCalls(previewCmd, currentLineWidth,
                                                      currentSticker,
                                                      currentStickerPx)] >>)
    /\ lastOp' = "display"
    /\ UNCHANGED <<core, download>>

NextDisplay ==
    \/ \E p \in Offsets : Budget /\ MouseDown(p) /\ Untracked
    \/ \E p \in Offsets : Budget /\ MouseMove(p) /\ Untracked
    \/ Budget /\ MouseUp /\ Untracked
    \/ Budget /\ MouseLeave /\ Untracked
    \/ Budget /\ UndoClick /\ Untracked
    \/ Budget /\ RedoClick /\ Untracked
    \/ Budget /\ ClearClick /\ Untracked
    \/ \E e \in KeyEvents : Budget /\ KeyDown(e) /\ Untracked
    \/ Budget /\ ThinClick /\ Untracked
    \/ Budget /\ ThickClick /\ Untracked
    \/ \E i \in StickerButtons : Budget /\ StickerClick(i) /\ Untracked
    \/ \E r \in PromptResults : Budget /\ AddStickerClick(r) /\ Untracked
    \/ \E ctx \in Contexts :
          steps < MaxEvents /\ steps' = MaxEvents /\ DisplayProbe(ctx) /\ Untracked

SpecDisplay == Init /\ [][NextDisplay]_vars

\* ------------------------------------------------------------- claims
Reverse(s) == [i \in 1..Len(s) |-> s[Len(s) + 1 - i]]

\* C1: from an empty display list, N commits then N undo calls leave the display
\* list empty and the redo stack holding the N commands in reverse commit order
\* (last committed at the bottom); N redo calls then restore the display list to
\* the same commands in the same order, unchanged, and empty the redo stack.
C1_RoundTrip ==
    LET n == Len(hist.commits)
    IN  /\ (hist.phase = "undo" /\ hist.k = n) =>
              /\ displayList = <<>>
              /\ redoStack = Reverse(hist.commits)
        /\ (hist.phase = "redo" /\ hist.k = n) =>
              /\ displayList = hist.commits
              /\ redoStack = <<>>
              /\ \A i \in 1..n : cmds[hist.commits[i]] = hist.snap[hist.commits[i]]

\* Two commits, two undos and two redos have run.
C1_Witness ==
    /\ hist.phase = "redo"
    /\ hist.k = 2
    /\ Len(hist.commits) = 2
    /\ Len(displayList) = 2

\* C2: after every pointer-down the redo stack is empty, whatever it held before;
\* a redo right after a pointer-down changes nothing and reports nothing.
C2_CommitKillsRedo ==
    [][ /\ lastOp' = "mousedown" => redoStack' = <<>>
        /\ (lastOp = "mousedown" /\ lastOp' = "redo") =>
              (UNCHANGED core /\ log' = <<>>) ]_vars

\* A pointer-down has just emptied a redo stack that held a command.
C2_Witness ==
    /\ lastOp = "mousedown"
    /\ hist.pre.rs # <<>>
    /\ redoStack = <<>>
    /\ displayList # <<>>

\* C3: undo on a non-empty display list moves exactly its last entry to the top
\* of the redo stack; redo on a non-empty redo stack moves exactly its top to the
\* end of the display list; every other entry of both, and every command, stays.
C3_UndoRedoMoveOne ==
    [][ /\ (lastOp' = "undo" /\ displayList # <<>>) =>
              /\ Len(displayList') = Len(displayList) - 1
              /\ \A i \in 1..Len(displayList') : displayList'[i] = displayList[i]
              /\ Len(redoStack') = Len(redoStack) + 1
              /\ \A i \in 1..Len(redoStack) : redoStack'[i] = redoStack[i]
              /\ redoStack'[Len(redoStack')] = displayList[Len(displayList)]
              /\ cmds' = cmds
        /\ (lastOp' = "redo" /\ redoStack # <<>>) =>
              /\ Len(redoStack') = Len(redoStack) - 1
              /\ \A i \in 1..Len(redoStack') : redoStack'[i] = redoStack[i]
              /\ Len(displayList') = Len(displayList) + 1
              /\ \A i \in 1..Len(displayList) : displayList'[i] = displayList[i]
              /\ displayList'[Len(displayList')] = redoStack[Len(redoStack)]
              /\ cmds' = cmds ]_vars

\* An undo has run with other entries in both sequences.
C3_Witness ==
    /\ lastOp = "undo"
    /\ Len(redoStack) >= 2
    /\ Len(displayList) >= 1

\* C4: undo with an empty display list and redo with an empty redo stack change
\* nothing (lists, cursor, live command, tool state, preview) and dispatch nothing.
C4_EmptyNoOp ==
    [][ ( \/ (lastOp' = "undo" /\ displayList = <<>>)
          \/ (lastOp' = "redo" /\ redoStack = <<>>) ) =>
            (UNCHANGED core /\ log' = <<>>) ]_vars

\* An undo call has returned early while the redo stack held a command.
C4_Witness ==
    /\ lastOp = "undo"
    /\ log = <<>>
    /\ displayList = <<>>
    /\ redoStack # <<>>

\* C6: a command changes only while cursor.active is true and it is the
\* in-progress command; a command in the redo stack is never changed, and no
\* display-list command other than the in-progress one is changed.
C6_OnlyLiveCommandChanges ==
    [][ \A c \in (DOMAIN cmds) \cap (DOMAIN cmds') :
          cmds'[c] # cmds[c] =>
            /\ cursor.active
            /\ currentCmd = c
            /\ c \notin Range(redoStack) ]_vars

\* C5 as stated: after clear both lists are empty and the repaint that clear
\* triggers paints nothing on the cleared canvas.
C5_ClearPaintsNothing ==
    lastOp = "clear" =>
        /\ displayList = <<>>
        /\ redoStack = <<>>
        /\ Len(log) = 1
        /\ log[1].calls = << [call |-> "clearRect"] >>

\* C5 as amended: after clear both lists are empty and the one repaint that clear
\* triggers clears the canvas and paints no command; it paints the preview, and
\* nothing else, exactly when the cursor is not active and the preview is visible.
C5_ClearPaintsNoCommand ==
    lastOp = "clear" =>
        /\ displayList = <<>>
        /\ redoStack = <<>>
        /\ Len(log) = 1
        /\ log[1].event = "drawing-changed"
        /\ log[1].calls[1] = [call |-> "clearRect"]
        /\ \A j \in 1..Len(log[1].calls) : log[1].calls[j].call # "display"
        /\ IF ~cursor.active /\ previewCmd.isVisible
           THEN /\ Len(log[1].calls) = 2
                /\ log[1].calls[2].call = "previewDisplay"
                /\ log[1].calls[2].out # <<>>
           ELSE Len(log[1].calls) = 1
        /\ canvas = log[1].calls

\* A clear has emptied both lists while the preview was visible and the cursor idle.
C5_Witness ==
    /\ lastOp = "clear"
    /\ hist.pre.dl # <<>>
    /\ hist.pre.rs # <<>>
    /\ ~cursor.active
    /\ previewCmd.isVisible

\* C7: a repaint that happens while cursor.active is true does not paint the
\* preview, whatever the preview's visibility flag is.
C7_NoPreviewWhileActive ==
    \A i \in 1..Len(log) :
        log[i].active =>
            \A j \in 1..Len(log[i].calls) : log[i].calls[j].call # "previewDisplay"

\* A repaint has happened with cursor.active true and the visibility flag true.
C7_Witness ==
    \E i \in 1..Len(log) :
        /\ log[i].active
        /\ log[i].visible
        /\ log[i].dl # <<>>

\* C8: every repaint clears the canvas first, then paints every display-list
\* entry once in display-list order, then paints the preview last exactly when
\* the cursor is not active and the preview is visible; it paints no command of
\* the redo stack.
C8_RepaintOrder ==
    \A i \in 1..Len(log) :
        LET n     == log[i]
            shown == ~n.active /\ n.visible
        IN  /\ n.calls[1] = [call |-> "clearRect"]
            /\ Len(n.calls) = 1 + Len(n.dl) + (IF shown THEN 1 ELSE 0)
            /\ \A j \in 1..Len(n.dl) :
                  /\ n.calls[j + 1].call = "display"
                  /\ n.calls[j + 1].cmd = n.dl[j]
                  /\ n.calls[j + 1].cmd \notin Range(redoStack)
            /\ shown => n.calls[Len(n.calls)].call = "previewDisplay"

\* A repaint has painted two commands and the preview while the redo stack held one.
C8_Witness ==
    /\ log # <<>>
    /\ Len(log[Len(log)].calls) = 4
    /\ Len(displayList) = 2
    /\ redoStack # <<>>

\* A prompt result the handler must ignore: cancelled, empty or white space only.
Blank(r) == r.isNull \/ \A i \in 1..Len(r.text) : r.text[i] \in WhiteSpace

\* C9: submitting a cancelled, empty or white-space-only label leaves the
\* registry, the tool mode, the active glyph and size and the preview unchanged.
C9_BlankLabelIgnored ==
    [][ lastOp' = "addSticker" =>
          \A r \in PromptResults :
            (Blank(r) /\ AddStickerClick(r)) =>
              UNCHANGED <<stickerDefs, currentToolMode, currentSticker,
                          currentStickerPx, previewCmd>> ]_vars

\* A blank label was submitted after a custom sticker had been registered.
C9_Witness ==
    /\ lastOp = "addSticker"
    /\ log = <<>>
    /\ Len(stickerDefs) > Len(InitStickerDefs)
    /\ previewCmd.isVisible

\* t is text without its leading and trailing white space, and is not empty.
IsTrimOf(t, text) ==
    \E i, j \in 1..Len(text) :
        /\ i <= j
        /\ text[i] \notin WhiteSpace
        /\ text[j] \notin WhiteSpace
        /\ \A k \in 1..Len(text) : (k < i \/ k > j) => text[k] \in WhiteSpace
        /\ t = [k \in 1..(j - i + 1) |-> text[i + k - 1]]

\* C10: submitting a label that is not blank appends exactly one definition
\* {trimmed label, 32} at the end of the registry, leaves the earlier entries,
\* and ends with the sticker tool active with that label as glyph and size 32.
C10_LabelRegisteredAndSelected ==
    [][ lastOp' = "addSticker" =>
          \A r \in PromptResults :
            (~Blank(r) /\ AddStickerClick(r)) =>
              /\ Len(stickerDefs') = Len(stickerDefs) + 1
              /\ \A i \in 1..Len(stickerDefs) : stickerDefs'[i] = stickerDefs[i]
              /\ IsTrimOf(stickerDefs'[Len(stickerDefs')].emoji, r.text)
              /\ stickerDefs'[Len(stickerDefs')].px = 32
              /\ currentToolMode' = "sticker"
              /\ currentSticker' = stickerDefs'[Len(stickerDefs')].emoji
              /\ currentStickerPx' = 32 ]_vars

\* A label with white space around and inside it was registered while the marker
\* tool was the last one chosen before.
C10_Witness ==
    /\ lastOp = "addSticker"
    /\ Len(stickerDefs) = Len(InitStickerDefs) + 2
    /\ stickerDefs[Len(stickerDefs)].emoji = <<"a", " ", "b">>
    /\ currentSticker = <<"a", " ", "b">>
    /\ currentToolMode = "sticker"

\* C11: at the end of initialisation and of every event handler the undo button
\* is enabled exactly when the display list is not empty, and the redo button
\* exactly when the redo stack is not empty.
C11_ControlsFollowLists ==
    /\ undoDisabled = (displayList = <<>>)
    /\ redoDisabled = (redoStack = <<>>)

\* An undo has emptied the display list: undo is disabled, redo is enabled.
C11_Witness ==
    /\ lastOp = "undo"
    /\ log # <<>>
    /\ undoDisabled
    /\ ~redoDisabled
    /\ Len(redoStack) = 2

\* C12: a stroke holding one point is painted as one filled circle centred on
\* the point, of radius line width / 2 (diameter = line width), in its colour; a
\* stroke of two or more points is painted as one path through all its points in
\* recording order. The width and colour are those of the tool at pointer-down.
C12_StrokeRendering ==
    [][ /\ \A i \in 1..Len(log') : \A j \in 1..Len(log'[i].calls) :
              LET k == log'[i].calls[j]
              IN  (k.call = "display" /\ cmds'[k.cmd].kind = "marker") =>
                    LET c == cmds'[k.cmd]
                    IN  IF Len(c.points) = 1
                        THEN k.out = << [op |-> "fillCircle",
                                         x |-> c.points[1].x, y |-> c.points[1].y,
                                         diameter |-> c.lineWidth,
                                         fillStyle |-> c.strokeStyle] >>
                        ELSE /\ Len(c.points) >= 2
                             /\ Len(k.out) = 1
                             /\ k.out[1].op = "strokePath"
                             /\ k.out[1].path = c.points
                             /\ k.out[1].strokeStyle = c.strokeStyle
                             /\ k.out[1].lineWidth = c.lineWidth
        /\ (lastOp' = "mousedown" /\ currentToolMode = "marker") =>
              LET calls == log'[1].calls
                  k     == calls[Len(calls)]
              IN  /\ k.call = "display"
                  /\ k.cmd = currentCmd'
                  /\ k.out = << [op |-> "fillCircle", x |-> cursor'.x, y |-> cursor'.y,
                                  diameter |-> currentLineWidth,
                                  fillStyle |-> "black"] >> ]_vars

\* The canvas shows a thick one-point stroke and a stroke of two points, both
\* finished.
C12_Witness ==
    /\ lastOp = "mouseup"
    /\ Len(displayList) = 2
    /\ cmds[displayList[1]].kind = "marker"
    /\ Len(cmds[displayList[1]].points) = 1
    /\ cmds[displayList[1]].lineWidth = 8
    /\ cmds[displayList[2]].kind = "marker"
    /\ Len(cmds[displayList[2]].points) = 2
    /\ Len(canvas) = 4

\* C13: a sticker is painted as exactly one glyph centred on its anchor; the
\* anchor is the creation point until a drag, then the point of the latest drag
\* (a drag overwrites it, nothing else changes it), so no glyph is painted at an
\* earlier position.
C13_StickerAtLatestDrag ==
    [][ /\ \A i \in 1..Len(log') : \A j \in 1..Len(log'[i].calls) :
              LET k == log'[i].calls[j]
              IN  (k.call = "display" /\ cmds'[k.cmd].kind = "sticker") =>
                    LET c == cmds'[k.cmd]
                    IN  /\ Len(k.out) = 1
                        /\ k.out[1].op = "fillText"
                        /\ k.out[1].text = c.emoji
                        /\ k.out[1].x = c.pos.x
                        /\ k.out[1].y = c.pos.y
                        /\ k.out[1].textAlign = "center"
                        /\ k.out[1].textBaseline = "middle"
                        /\ \A jj \in 1..Len(log'[i].calls) :
                              (log'[i].calls[jj].call = "display"
                               /\ log'[i].calls[jj].cmd = k.cmd) => jj = j
        /\ (lastOp' = "mousedown" /\ currentToolMode = "sticker") =>
              cmds'[currentCmd'].pos = [x |-> cursor'.x, y |-> cursor'.y]
        /\ (lastOp' = "mousemove" /\ cursor.active /\ currentCmd # 0
                /\ cmds[currentCmd].kind = "sticker") =>
              cmds'[currentCmd].pos = [x |-> cursor'.x, y |-> cursor'.y]
        /\ \A c \in (DOMAIN cmds) \cap (DOMAIN cmds') :
              (cmds[c].kind = "sticker" /\ cmds'[c] # cmds[c]) =>
                /\ lastOp' = "mousemove"
                /\ c = currentCmd
                /\ cmds'[c] = [cmds[c] EXCEPT !.pos = [x |-> cursor'.x, y |-> cursor'.y]]
      ]_vars

\* A sticker is being dragged and the canvas shows it, after an earlier sticker,
\* at the pointer's position.
C13_Witness ==
    /\ lastOp = "mousemove"
    /\ cursor.active
    /\ Len(displayList) = 2
    /\ currentCmd = displayList[2]
    /\ cmds[currentCmd].kind = "sticker"
    /\ cmds[displayList[1]].kind = "sticker"
    /\ cmds[currentCmd].pos = [x |-> 3, y |-> 1]
    /\ cmds[displayList[1]].pos = [x |-> 1, y |-> 2]
    /\ Len(canvas) = 3

\* The handlers that select a tool.
ToolSelectOps == {"setMarkerTool", "stickerClick", "addSticker"}

IsDisplayCall(k) == k.call = "display"

\* C14: no tool-select action (width preset, sticker, custom sticker) changes the
\* type, colour, line width, glyph, font size or geometry of any existing
\* command, in the display list, in the redo stack or in progress, nor what the
\* display-list commands paint.
C14_ToolSelectKeepsCommands ==
    [][ lastOp' \in ToolSelectOps =>
          /\ cmds' = cmds
          /\ SelectSeq(canvas', IsDisplayCall) = SelectSeq(canvas, IsDisplayCall) ]_vars

\* The thick width was chosen during the drag of a thin stroke, with a sticker
\* already on the canvas.
C14_Witness ==
    /\ lastOp = "setMarkerTool"
    /\ currentLineWidth = 8
    /\ cursor.active
    /\ Len(displayList) = 2
    /\ currentCmd = displayList[2]
    /\ cmds[currentCmd].kind = "marker"
    /\ cmds[currentCmd].lineWidth = 2
    /\ cmds[displayList[1]].kind = "sticker"

\* C15: export paints exactly the display-list commands, each once and in
\* display-list order, on an offscreen surface of 1024 x 1024 (256 x 4) with every
\* coordinate, width and font size multiplied by 4; it paints neither the preview
\* nor a redo-stack command, and it leaves the display list, the redo stack, the
\* commands, the tool state, the preview and the cursor unchanged.
C15_ExportPaintsDisplayList ==
    [][ lastOp' = "export" =>
          /\ UNCHANGED core
          /\ download' # NoDownload =>
                /\ download'.width = 1024
                /\ download'.height = 1024
                /\ download'.width = 256 * 4
                /\ Len(download'.painted) = Len(displayList)
                /\ \A i \in 1..Len(displayList) :
                      LET k == download'.painted[i]
                          c == cmds[displayList[i]]
                      IN  /\ k.cmd = displayList[i]
                          /\ k.cmd \notin Range(redoStack)
                          /\ Len(k.out) = 1
                          /\ IF c.kind = "sticker"
                             THEN /\ k.out[1].op = "fillText"
                                  /\ k.out[1].text = c.emoji
                                  /\ k.out[1].x = 4 * c.pos.x
                                  /\ k.out[1].y = 4 * c.pos.y
                                  /\ k.out[1].fontPx = 4 * c.fontPx
                                  /\ k.out[1].alphaTenths = 10
                             ELSE IF Len(c.points) = 1
                             THEN /\ k.out[1].op = "fillCircle"
                                  /\ k.out[1].x = 4 * c.points[1].x
                                  /\ k.out[1].y = 4 * c.points[1].y
                                  /\ k.out[1].diameter = 4 * c.lineWidth
                             ELSE /\ k.out[1].op = "strokePath"
                                  /\ Len(k.out[1].path) = Len(c.points)
                                  /\ \A j \in 1..Len(c.points) :
                                        /\ k.out[1].path[j].x = 4 * c.points[j].x
                                        /\ k.out[1].path[j].y = 4 * c.points[j].y
                                  /\ k.out[1].lineWidth = 4 * c.lineWidth ]_vars

\* An export has painted two commands while the redo stack held a third and the
\* screen showed the preview on top of the two.
C15_Witness ==
    /\ lastOp = "export"
    /\ download # NoDownload
    /\ Len(download.painted) = 2
    /\ redoStack # <<>>
    /\ ~cursor.active
    /\ previewCmd.isVisible
    /\ Len(canvas) = 4

\* C16: every pointer-down, in any state, sets cursor.active, hides the preview,
\* creates exactly one new command of the active tool's kind at the down position
\* with the tool parameters of that moment, makes it the live command and appends
\* it as the last entry of the display list, which grows by exactly one.
C16_PointerDownCommits ==
    [][ lastOp' = "mousedown" =>
          /\ cursor'.active
          /\ cursor' \in {[active |-> TRUE, x |-> p.x, y |-> p.y] : p \in Offsets}
          /\ previewCmd' = [previewCmd EXCEPT !.isVisible = FALSE]
          /\ currentCmd' # 0
          /\ (DOMAIN cmds') \ (DOMAIN cmds) = {currentCmd'}
          /\ \A c \in (DOMAIN cmds') \ {currentCmd'} : cmds'[c] = cmds[c]
          /\ Len(displayList') = Len(displayList) + 1
          /\ \A i \in 1..Len(displayList) : displayList'[i] = displayList[i]
          /\ displayList'[Len(displayList')] = currentCmd'
          /\ LET c == cmds'[currentCmd']
             IN  /\ c.kind = currentToolMode
                 /\ c.kind = "marker" =>
                       /\ c.points = << [x |-> cursor'.x, y |-> cursor'.y] >>
                       /\ c.lineWidth = currentLineWidth
                       /\ c.strokeStyle = "black"
                 /\ c.kind = "sticker" =>
                       /\ c.pos = [x |-> cursor'.x, y |-> cursor'.y]
                       /\ c.emoji = currentSticker
                       /\ c.fontPx = currentStickerPx ]_vars

\* A pointer-down with the thick marker has added a third command after a
\* sticker.
C16_Witness ==
    /\ lastOp = "mousedown"
    /\ Len(displayList) = 3
    /\ currentCmd = displayList[3]
    /\ cmds[currentCmd].kind = "marker"
    /\ cmds[currentCmd].lineWidth = 8
    /\ cmds[displayList[2]].kind = "sticker"
    /\ cursor.active
    /\ ~previewCmd.isVisible

\* C17: after a pointer-up or a pointer-leave, in any state, cursor.active is
\* false, the live command reference is null and the preview is at the last known
\* cursor position with its visibility flag true; cursor.active then stays false
\* until a pointer-down, and while it is false no pointer-move changes a command.
C17_InteractionEnds ==
    [][ /\ lastOp' \in {"mouseup", "mouseleave"} =>
              /\ ~cursor'.active
              /\ currentCmd' = 0
              /\ cursor'.x = cursor.x
              /\ cursor'.y = cursor.y
              /\ previewCmd'.isVisible
              /\ previewCmd'.x = cursor.x
              /\ previewCmd'.y = cursor.y
        /\ (~cursor.active /\ cursor'.active) => lastOp' = "mousedown"
        /\ (~cursor.active /\ lastOp' = "mousemove") => cmds' = cmds ]_vars

\* A pointer-leave has ended the drag of a two-point stroke with no pointer-up.
C17_Witness ==
    /\ lastOp = "mouseleave"
    /\ Len(log) = 2
    /\ displayList # <<>>
    /\ cmds[displayList[Len(displayList)]].kind = "marker"
    /\ Len(cmds[displayList[Len(displayList)]].points) = 2
    /\ cursor = [active |-> FALSE, x |-> 3, y |-> 1]
    /\ previewCmd.isVisible

\* C18 as stated: whenever the cursor is not active at the end of an event
\* handler, the preview is visible and at the last known cursor position.
C18_IdlePreviewVisible ==
    (lastOp # "initUI" /\ ~cursor.active) =>
        /\ previewCmd.isVisible
        /\ previewCmd.x = cursor.x
        /\ previewCmd.y = cursor.y

\* The handlers that arm the preview when they end with the cursor idle.
ArmingOps == {"mousemove", "mouseup", "mouseleave"}

\* C18 as amended: when a handler ends with the cursor idle, the preview is
\* visible and at the last known cursor position if the handler is a pointer-move,
\* pointer-up or pointer-leave; a tool-select action leaves a rebuilt preview that
\* is hidden, at the origin, until the next of those; every other handler leaves
\* the preview and the cursor as they were. So an idle preview that is visible is
\* at the last known cursor position.
C18_IdlePreviewArmed ==
    [][ /\ (lastOp' \in ArmingOps /\ ~cursor'.active) =>
              /\ previewCmd'.isVisible
              /\ previewCmd'.x = cursor'.x
              /\ previewCmd'.y = cursor'.y
        /\ (lastOp' \in ToolSelectOps /\ log' # <<>>) =>
              /\ ~previewCmd'.isVisible
              /\ previewCmd'.x = 0
              /\ previewCmd'.y = 0
              /\ cursor' = cursor
        /\ (lastOp' \notin ArmingOps \cup ToolSelectOps \cup {"mousedown"}
              \/ (lastOp' \in ToolSelectOps /\ log' = <<>>)) =>
              /\ previewCmd' = previewCmd
              /\ cursor' = cursor
        /\ (~cursor'.active /\ previewCmd'.isVisible) =>
              /\ previewCmd'.x = cursor'.x
              /\ previewCmd'.y = cursor'.y ]_vars

\* After a sticker was chosen, a pointer-move has shown the sticker preview at the
\* pointer's position over a canvas that holds a command.
C18_Witness ==
    /\ lastOp = "mousemove"
    /\ ~cursor.active
    /\ currentToolMode = "sticker"
    /\ previewCmd = [kind |-> "sticker", x |-> 3, y |-> 1, isVisible |-> TRUE]
    /\ cursor.x = 3
    /\ cursor.y = 1
    /\ displayList # <<>>

\* C19: every tool-select action (Thin = 2, Thick = 8, a registry sticker, an
\* accepted custom sticker) sets the tool mode and parameters to the selected
\* ones, replaces the preview by one of the kind of the new mode, and dispatches
\* one tool-moved event after both updates; the display list, the redo stack, the
\* commands, the cursor and the live command are unchanged.
C19_ToolSelect ==
    [][ (lastOp' \in ToolSelectOps /\ log' # <<>>) =>
          /\ ThinClick => (currentToolMode' = "marker" /\ currentLineWidth' = 2)
          /\ ThickClick => (currentToolMode' = "marker" /\ currentLineWidth' = 8)
          /\ lastOp' = "setMarkerTool" =>
                /\ currentLineWidth' \in {2, 8}
                /\ UNCHANGED <<currentSticker, currentStickerPx, stickerDefs>>
          /\ \A i \in 1..Len(stickerDefs) : StickerClick(i) =>
                /\ currentSticker' = stickerDefs[i].emoji
                /\ currentStickerPx' = stickerDefs[i].px
          /\ lastOp' = "stickerClick" =>
                /\ currentToolMode' = "sticker"
                /\ \E i \in 1..Len(stickerDefs) :
                      /\ currentSticker' = stickerDefs[i].emoji
                      /\ currentStickerPx' = stickerDefs[i].px
                /\ UNCHANGED <<currentLineWidth, stickerDefs>>
          /\ lastOp' = "addSticker" =>
                /\ currentToolMode' = "sticker"
                /\ currentSticker' = stickerDefs'[Len(stickerDefs')].emoji
                /\ currentStickerPx' = stickerDefs'[Len(stickerDefs')].px
                /\ UNCHANGED currentLineWidth
          /\ previewCmd'.kind = currentToolMode'
          /\ ~previewCmd'.isVisible
          /\ Len(log') = 1
          /\ log'[1].event = "tool-moved"
          /\ log'[1].visible = previewCmd'.isVisible
          /\ log'[1].calls = canvas'
          /\ \A j \in 1..Len(canvas') : canvas'[j].call # "previewDisplay"
          /\ UNCHANGED <<displayList, redoStack, cmds, cursor, currentCmd>> ]_vars

\* The last registry sticker was chosen during the drag of a stroke.
C19_Witness ==
    /\ lastOp = "stickerClick"
    /\ currentToolMode = "sticker"
    /\ currentSticker = stickerDefs[Len(stickerDefs)].emoji
    /\ previewCmd.kind = "sticker"
    /\ cursor.active
    /\ currentCmd # 0
    /\ currentCmd = displayList[Len(displayList)]
    /\ cmds[currentCmd].kind = "marker"
    /\ Len(displayList) = 2

\* C20: every handler that changes the display list, the redo stack or a command
\* dispatches a drawing-changed event, handled before the handler returns; and at
\* the end of every handler the canvas shows the last repaint, which painted
\* exactly the current
\* display list in order with each command's current geometry, and then the
\* preview exactly when the cursor is idle and the preview is visible.
C20_CanvasNeverStale ==
    [][ /\ ( \/ displayList' # displayList
              \/ redoStack' # redoStack
              \/ \E c \in (DOMAIN cmds) \cap (DOMAIN cmds') : cmds'[c] # cmds[c] ) =>
              \E i \in 1..Len(log') : log'[i].event = "drawing-changed"
        /\ log' # <<>> => canvas' = log'[Len(log')].calls
        /\ LET shown == ~cursor'.active /\ previewCmd'.isVisible
           IN  /\ canvas'[1] = [call |-> "clearRect"]
               /\ Len(canvas') = 1 + Len(displayList') + (IF shown THEN 1 ELSE 0)
               /\ \A i \in 1..Len(displayList') :
                     /\ canvas'[i + 1].call = "display"
                     /\ canvas'[i + 1].cmd = displayList'[i]
                     /\ canvas'[i + 1].out = CommandDisplay(cmds'[displayList'[i]])
               /\ shown =>
                     /\ canvas'[Len(canvas')].call = "previewDisplay"
                     /\ canvas'[Len(canvas')].out =
                           PreviewPaint(previewCmd', currentLineWidth',
                                        currentSticker', currentStickerPx') ]_vars

\* A drag has added a point to the second stroke and the canvas shows both
\* strokes, the second as a path.
C20_Witness ==
    /\ lastOp = "mousemove"
    /\ Len(log) = 1
    /\ log[1].event = "drawing-changed"
    /\ Len(displayList) = 2
    /\ currentCmd = displayList[2]
    /\ Len(canvas) = 3
    /\ canvas[3].out[1].op = "strokePath"
    /\ Len(canvas[3].out[1].path) = 3

\* C21: every display call (stroke of one point, stroke of several points,
\* sticker, marker preview, sticker preview, and a preview that returns early)
\* leaves the context's style and the depth and content of its save stack as they
\* were before the call, so each call of a repaint starts from the style the
\* repaint started with.
C21_DisplayKeepsStyle ==
    lastOp = "display" =>
        \A i \in 1..Len(log) :
            /\ log[i].after = log[i].before
            /\ log[i].before = log[1].before

\* A stroke of two points, a sticker and the visible sticker preview have been
\* displayed on a context that came with a used style and a saved state.
C21_Witness ==
    /\ lastOp = "display"
    /\ Len(log) = 3
    /\ log[1].before = [style |-> UsedStyle, stack |-> <<DefaultStyle>>]
    /\ cmds[displayList[1]].kind = "marker"
    /\ Len(cmds[displayList[1]].points) = 2
    /\ cmds[displayList[2]].kind = "sticker"
    /\ previewCmd.kind = "sticker"
    /\ previewCmd.isVisible

\* C22: when the host gives no drawing context, startup fails and no later event
\* is accepted that changes the display list or the redo stack: both stay as they
\* were created, empty.
C22_NoContextIsFatal ==
    ~hasCtx => (displayList = <<>> /\ redoStack = <<>>)

\* C23: at the end of every handler, cursor.active is true
\* exactly when the live command reference is not null, and the preview's
\* visibility flag is false whenever cursor.active is true; a pointer-move while
\* active extends the live command by the pointer's position and leaves the
\* preview as it was, hidden.
C23_ActiveIffLiveCommand ==
    [][ /\ cursor'.active = (currentCmd' # 0)
        /\ cursor'.active => ~previewCmd'.isVisible
        /\ (cursor.active /\ lastOp' = "mousemove") =>
              /\ currentCmd' = currentCmd
              /\ cmds'[currentCmd] = Drag(cmds[currentCmd], cursor')
              /\ previewCmd' = previewCmd
              /\ ~previewCmd'.isVisible ]_vars

\* A pointer-move has extended the live stroke to three points after the sticker
\* tool was chosen during the drag.
C23_Witness ==
    /\ lastOp = "mousemove"
    /\ cursor.active
    /\ currentCmd # 0
    /\ displayList # <<>>
    /\ currentCmd = displayList[Len(displayList)]
    /\ cmds[currentCmd].kind = "marker"
    /\ Len(cmds[currentCmd].points) = 3
    /\ previewCmd = [kind |-> "sticker", x |-> 0, y |-> 0, isVisible |-> FALSE]

\* C24: whenever a command is in progress (the live command reference is not
\* null), that command is the last entry of the display list, under every
\* interleaving of pointer events with undo, redo and clear.
C24_LiveCommandIsLast ==
    currentCmd # 0 =>
        /\ displayList # <<>>
        /\ displayList[Len(displayList)] = currentCmd

\* The commands of the session in commit order: the display list followed by the
\* redo stack from its top down.
Timeline(dl, rs) == dl \o Reverse(rs)

\* C25: undo and redo neither create nor destroy commands: each leaves the display
\* list followed by the reversed redo stack unchanged, hence the number of
\* commands too; only a pointer-down (adds one, drops the redo stack) and clear
\* (drops all) change that sequence.
C25_UndoRedoKeepTimeline ==
    [][ /\ lastOp' \in {"undo", "redo"} =>
              /\ Timeline(displayList', redoStack') = Timeline(displayList, redoStack)
              /\ Len(displayList') + Len(redoStack') = Len(displayList) + Len(redoStack)
              /\ DOMAIN cmds' = DOMAIN cmds
        /\ Timeline(displayList', redoStack') # Timeline(displayList, redoStack) =>
              lastOp' \in {"mousedown", "clear"}
        /\ lastOp' = "mousedown" =>
              /\ Timeline(displayList', redoStack') = Append(displayList, currentCmd')
              /\ currentCmd' \notin Range(displayList) \cup Range(redoStack)
        /\ lastOp' = "clear" => Timeline(displayList', redoStack') = <<>> ]_vars

\* A redo has run with two commands in the display list and one left in the redo
\* stack.
C25_Witness ==
    /\ lastOp = "redo"
    /\ log # <<>>
    /\ Len(displayList) = 2
    /\ Len(redoStack) = 1

\* C26: in every reachable state no command occurs more than once in the display
\* list, none occurs more than once in the redo stack, and none is in both.
C26_NoCommandTwice ==
    /\ \A i, j \in 1..Len(displayList) : displayList[i] = displayList[j] => i = j
    /\ \A i, j \in 1..Len(redoStack) : redoStack[i] = redoStack[j] => i = j
    /\ Range(displayList) \cap Range(redoStack) = {}

\* Two commands are on the display list and two on the redo stack after an undo.
C26_Witness ==
    /\ lastOp = "undo"
    /\ Len(displayList) = 2
    /\ Len(redoStack) = 2

====
